---- MODULE Spec2Model ----
(* Model of dashboard.py, the LISA cost forecast dashboard.                 *)
(*                                                                          *)
(* The script runs top to bottom on every input change: it reads the        *)
(* sidebar assumptions, builds the year list, grows the customer series,    *)
(* derives vehicles and users, builds the cost columns, the totals and the  *)
(* per-unit ratios, and exports two sheets.  pc is the position in the      *)
(* script.                                                                  *)
(*                                                                          *)
(* Floating-point numbers are modelled as exact fractions [n, d], d > 0,    *)
(* in lowest terms; the three IEEE values a division by zero produces are   *)
(* the fractions with d = 0 (1/0 = inf, -1/0 = -inf, 0/0 = nan).  Rounding  *)
(* in the last bit is not modelled.                                         *)
EXTENDS Integers, Sequences, FiniteSets, TLC

\* ------------------------------------------------------------------------
\* Bounds of the model
\* ------------------------------------------------------------------------

\* largest end_year - start_year explored
MaxHorizon == 2

\* how far end_year may lie before start_year when the calculation is run
\* on an Assumptions record that did not come through the widgets
MaxBack == 1

\* ------------------------------------------------------------------------
\* Float arithmetic (numpy float64 / Python float), as exact fractions
\* ------------------------------------------------------------------------

Abs(x) == IF x < 0 THEN -x ELSE x

RECURSIVE GCD(_, _)
GCD(a, b) == IF b = 0 THEN a ELSE GCD(b, a % b)

\* n/d in lowest terms with a positive denominator; d = 0 keeps only the sign
Frac(n, d) ==
    IF d = 0
    THEN [n |-> IF n > 0 THEN 1 ELSE IF n < 0 THEN -1 ELSE 0, d |-> 0]
    ELSE LET s == IF d < 0 THEN -1 ELSE 1
             g == GCD(Abs(n), Abs(d))
         IN  [n |-> (s * n) \div g, d |-> (s * d) \div g]

FromInt(i) == [n |-> i, d |-> 1]

PosInf == [n |-> 1, d |-> 0]
NegInf == [n |-> -1, d |-> 0]
NaN == [n |-> 0, d |-> 0]

IsFinite(x) == x.d > 0

\* x * y; the operands are cross-reduced first so that products stay small
FMul(x, y) ==
    LET g1 == GCD(Abs(x.n), y.d)
        g2 == GCD(Abs(y.n), x.d)
        a == IF g1 = 0 THEN x.n ELSE x.n \div g1
        b == IF g2 = 0 THEN y.n ELSE y.n \div g2
        c == IF g2 = 0 THEN x.d ELSE x.d \div g2
        e == IF g1 = 0 THEN y.d ELSE y.d \div g1
    IN  Frac(a * b, c * e)

\* x + y over the least common denominator
FAdd(x, y) ==
    LET g == GCD(x.d, y.d)
    IN  Frac(x.n * (y.d \div g) + y.n * (x.d \div g), (x.d \div g) * y.d)

\* x / y as numpy divides: a zero divisor gives inf, -inf or nan, no exception
FDiv(x, y) ==
    IF y.n = 0
    THEN Frac(x.n, 0)
    ELSE FMul(x, IF y.n < 0 THEN [n |-> -y.d, d |-> -y.n]
                            ELSE [n |-> y.d, d |-> y.n])

\* x <= y for finite x, y: by the integer parts, and by the fractional parts
\* over the least common denominator when the integer parts agree
FLeq(x, y) ==
    LET g == GCD(x.d, y.d)
        fx == x.n \div x.d
        fy == y.n \div y.d
    IN  IF fx # fy THEN fx < fy
        ELSE (x.n % x.d) * (y.d \div g) <= (y.n % y.d) * (x.d \div g)

\* b ** e for an integer e >= 0
RECURSIVE FPow(_, _)
FPow(b, e) == IF e = 0 THEN FromInt(1) ELSE FMul(b, FPow(b, e - 1))

\* astype(int): truncation toward zero
astype_int(x) == IF x.n >= 0 THEN x.n \div x.d ELSE -((-x.n) \div x.d)

\* 1 + pct / 100
one_plus_pct(pct) == FAdd(FromInt(1), Frac(pct, 100))

\* ------------------------------------------------------------------------
\* Values the inputs are drawn from
\* ------------------------------------------------------------------------

\* "Start Year": 2025..2100
StartYears == {2025, 2026}

\* "Starting Customers", min 1, default 10
CustomerStarts == {1, 10}

\* "Annual Customer Growth (%)": 0..200 step 5, default 50
Growths == {0, 50}

\* "Vehicles per Customer", min 1, default 50
VehiclesPerCustomer == {1, 50}

\* "Riders per Vehicle", min 1, default 10
RidersPerVehicle == {1, 10}

\* the nine cost rates, min 0: compute, db, bigquery, streaming, monitoring,
\* auth, support tools, support staff, devops.  The first is the defaults.
CostRates ==
    { <<50, 15, 10, 8, 5, 1, 1, 1000, 2000>>,
      <<10, 20, 30, 40, 60, 2, 3, 500, 1500>>,
      <<0, 0, 0, 0, 0, 0, 0, 0, 0>> }

\* "Infrastructure Inflation (%)" and "Staff Inflation (%)": 0..50
InfraInflations == {0, 5}
StaffInflations == {0, 10}

\* Values outside the widget ranges, for the calculation run on an
\* Assumptions record that was not clamped by the widgets
EngineCustomerStarts == {0, 1, 10}
EngineGrowths == {-100, 0, 50}
EngineVehiclesPerCustomer == {0, 1, 50}
EngineRidersPerVehicle == {0, 1, 10}

\* ------------------------------------------------------------------------
\* State
\* ------------------------------------------------------------------------

VARIABLES
    start_year, end_year, customers_start, customers_growth,
    vehicles_per_customer, riders_per_vehicle,
    cost_per_vehicle_compute, cost_per_vehicle_db, cost_per_vehicle_bigquery,
    cost_per_vehicle_streaming, cost_per_vehicle_monitoring,
    cost_per_user_auth, cost_per_user_support,
    staff_support_per_customer, staff_devops_per_customer,
    infra_increase, staff_increase,
    years, n_years, customers, loop_i, vehicles, users,
    df, excel_data, error, pc

inputs == <<start_year, end_year, customers_start, customers_growth,
            vehicles_per_customer, riders_per_vehicle,
            cost_per_vehicle_compute, cost_per_vehicle_db,
            cost_per_vehicle_bigquery, cost_per_vehicle_streaming,
            cost_per_vehicle_monitoring, cost_per_user_auth,
            cost_per_user_support, staff_support_per_customer,
            staff_devops_per_customer, infra_increase, staff_increase>>

vars == <<inputs, years, n_years, customers, loop_i, vehicles, users,
          df, excel_data, error, pc>>

\* a table or workbook that has not been built
Nothing == [c \in {} |-> 0]

\* ------------------------------------------------------------------------
\* Initial states
\* ------------------------------------------------------------------------

\* nothing computed yet; cost rates and inflation sliders read
InitRun ==
    /\ pc = "years"
    /\ years = <<>>
    /\ n_years = 0
    /\ customers = <<>>
    /\ loop_i = 0
    /\ vehicles = <<>>
    /\ users = <<>>
    /\ df = Nothing
    /\ excel_data = Nothing
    /\ error = "none"
    /\ start_year \in StartYears
    /\ \E r \in CostRates :
        /\ cost_per_vehicle_compute = r[1]
        /\ cost_per_vehicle_db = r[2]
        /\ cost_per_vehicle_bigquery = r[3]
        /\ cost_per_vehicle_streaming = r[4]
        /\ cost_per_vehicle_monitoring = r[5]
        /\ cost_per_user_auth = r[6]
        /\ cost_per_user_support = r[7]
        /\ staff_support_per_customer = r[8]
        /\ staff_devops_per_customer = r[9]
    /\ infra_increase \in InfraInflations
    /\ staff_increase \in StaffInflations

\* the assumptions as the sidebar widgets deliver them
Init ==
    /\ InitRun
    /\ end_year \in (start_year + 1)..(start_year + MaxHorizon)
    /\ customers_start \in CustomerStarts
    /\ customers_growth \in Growths
    /\ vehicles_per_customer \in VehiclesPerCustomer
    /\ riders_per_vehicle \in RidersPerVehicle

\* the assumptions handed to the calculation without the widget ranges
EngineInit ==
    /\ InitRun
    /\ end_year \in (start_year - MaxBack)..(start_year + MaxHorizon)
    /\ customers_start \in EngineCustomerStarts
    /\ customers_growth \in EngineGrowths
    /\ vehicles_per_customer \in EngineVehiclesPerCustomer
    /\ riders_per_vehicle \in EngineRidersPerVehicle

\* ------------------------------------------------------------------------
\* DATA CALCULATION
\* ------------------------------------------------------------------------

\* a range that leaves out its last year
range_list_m(lo, hi) == [i \in 1..(IF hi - 1 > lo THEN hi - 1 - lo ELSE 0) |-> lo + i - 1]

\* list(range(lo, hi))
range_list(lo, hi) == [i \in 1..(IF hi > lo THEN hi - lo ELSE 0) |-> lo + i - 1]

\* an index that starts at 1
arange_m(n) == [i \in 1..n |-> i]

\* np.arange(n)
arange(n) == [i \in 1..n |-> i - 1]

\* growth applied with the wrong sign
next_customers_m(last, growth) == FMul(last, one_plus_pct(-growth))

\* customers[-1] * (1 + customers_growth / 100)
next_customers(last, growth) == FMul(last, one_plus_pct(growth))

\* numpy broadcasting of a binary operation over two one-dimensional arrays:
\* a length-1 array is stretched to the length of the other (also to length
\* 0).  The operands here have lengths max(1, n_years) and n_years, so the
\* shape mismatch numpy rejects (two different lengths above 1) cannot occur.
bcast_len(a, b) == IF Len(a) = 1 THEN Len(b) ELSE Len(a)
bcast_at(a, i) == IF Len(a) = 1 THEN a[1] ELSE a[i]

\* scalar * array
scale(k, a) == [i \in 1..Len(a) |-> FMul(FromInt(k), a[i])]

\* inflation that forgets the division of the rate by 100
apply_inflation_m(base_cost, rate_percent, years_index) ==
    LET factor == [i \in 1..Len(years_index) |->
                      FPow(FromInt(1 + rate_percent), years_index[i])]
    IN  [i \in 1..bcast_len(base_cost, factor) |->
            FMul(bcast_at(base_cost, i), bcast_at(factor, i))]

\* base_cost * ((1 + rate_percent/100) ** years_index)
apply_inflation(base_cost, rate_percent, years_index) ==
    LET factor == [i \in 1..Len(years_index) |->
                      FPow(one_plus_pct(rate_percent), years_index[i])]
    IN  [i \in 1..bcast_len(base_cost, factor) |->
            FMul(bcast_at(base_cost, i), bcast_at(factor, i))]

\* array.astype(int)
astype_int_array(a) == [i \in 1..Len(a) |-> astype_int(a[i])]

\* years = list(range(start_year, end_year + 1)); n_years = len(years);
\* customers = [customers_start]
BuildYears ==
    /\ pc = "years"
    /\ years' = range_list(start_year, end_year + 1)
    /\ n_years' = Len(years')
    /\ customers' = <<FromInt(customers_start)>>
    /\ loop_i' = 1
    /\ pc' = "loop"
    /\ UNCHANGED <<inputs, vehicles, users, df, excel_data, error>>

\* one iteration of: for _ in range(1, n_years): customers.append(...)
GrowCustomers ==
    /\ pc = "loop"
    /\ loop_i < n_years
    /\ customers' = Append(customers,
                           next_customers(customers[Len(customers)],
                                          customers_growth))
    /\ loop_i' = loop_i + 1
    /\ UNCHANGED <<inputs, years, n_years, vehicles, users, df, excel_data,
                   error, pc>>

\* loop exhausted; vehicles = customers * vehicles_per_customer;
\* users = vehicles * riders_per_vehicle
DerivePopulations ==
    /\ pc = "loop"
    /\ loop_i >= n_years
    /\ vehicles' = scale(vehicles_per_customer, customers)
    /\ users' = scale(riders_per_vehicle, vehicles')
    /\ pc' = "data"
    /\ UNCHANGED <<inputs, years, n_years, customers, loop_i, df, excel_data,
                   error>>

\* the dict of columns handed to pd.DataFrame, with infra_pct the rate passed
\* for the seven infrastructure columns and staff_pct for the two staff ones
data_of(infra_pct, staff_pct) ==
    LET idx == arange(n_years)
    IN  [c \in {"Year", "Customers", "Vehicles", "Users",
                "Compute & Kubernetes", "Transactional DB",
                "Analytics (BigQuery)", "Streaming", "Monitoring",
                "Auth (Firebase)", "Support Tools (Intercom)",
                "Support Staff", "DevOps/Infra Engineers"} |->
         CASE c = "Year" -> years
           [] c = "Customers" -> astype_int_array(customers)
           [] c = "Vehicles" -> astype_int_array(vehicles)
           [] c = "Users" -> astype_int_array(users)
           [] c = "Compute & Kubernetes" ->
                apply_inflation(scale(cost_per_vehicle_compute, vehicles),
                                infra_pct, idx)
           [] c = "Transactional DB" ->
                apply_inflation(scale(cost_per_vehicle_db, vehicles),
                                infra_pct, idx)
           [] c = "Analytics (BigQuery)" ->
                apply_inflation(scale(cost_per_vehicle_bigquery, vehicles),
                                infra_pct, idx)
           [] c = "Streaming" ->
                apply_inflation(scale(cost_per_vehicle_streaming, vehicles),
                                infra_pct, idx)
           [] c = "Monitoring" ->
                apply_inflation(scale(cost_per_vehicle_monitoring, vehicles),
                                infra_pct, idx)
           [] c = "Auth (Firebase)" ->
                apply_inflation(scale(cost_per_user_auth, users),
                                infra_pct, idx)
           [] c = "Support Tools (Intercom)" ->
                apply_inflation(scale(cost_per_user_support, users),
                                infra_pct, idx)
           [] c = "Support Staff" ->
                apply_inflation(scale(staff_support_per_customer, customers),
                                staff_pct, idx)
           [] c = "DevOps/Infra Engineers" ->
                apply_inflation(scale(staff_devops_per_customer, customers),
                                staff_pct, idx)]

\* a slip that passes the staff slider for the infrastructure columns too
data_m == data_of(staff_increase, staff_increase)

\* data = {...} with infra_increase and staff_increase
data == data_of(infra_increase, staff_increase)

\* a table constructor that does not compare the column lengths
DataFrameAccepts_m(d) == TRUE

\* pd.DataFrame(d) accepts a dict of columns only if all have one length;
\* otherwise it raises ValueError
DataFrameAccepts(d) == \A c1, c2 \in DOMAIN d : Len(d[c1]) = Len(d[c2])

\* df = pd.DataFrame(data)
BuildData ==
    /\ pc = "data"
    /\ IF DataFrameAccepts(data)
       THEN /\ df' = data
            /\ pc' = "totals"
            /\ error' = error
       ELSE /\ df' = df
            /\ pc' = "failed"
            /\ error' = "ValueError"
    /\ UNCHANGED <<inputs, years, n_years, customers, loop_i, vehicles, users,
                   excel_data>>

\* a column list that misses Monitoring
infra_cols_m ==
    <<"Compute & Kubernetes", "Transactional DB", "Analytics (BigQuery)",
      "Streaming", "Auth (Firebase)", "Support Tools (Intercom)">>

infra_cols ==
    <<"Compute & Kubernetes", "Transactional DB", "Analytics (BigQuery)",
      "Streaming", "Monitoring", "Auth (Firebase)",
      "Support Tools (Intercom)">>

staff_cols == <<"Support Staff", "DevOps/Infra Engineers">>

\* number of rows of a table
n_rows(d) == Len(d["Year"])

\* d[cols].sum(axis=1): per row, the sum of the listed columns
RECURSIVE row_sum(_, _, _, _)
row_sum(d, cols, i, k) ==
    IF k = 0 THEN FromInt(0)
    ELSE FAdd(row_sum(d, cols, i, k - 1), d[cols[k]][i])

sum_axis1(d, cols) == [i \in 1..n_rows(d) |-> row_sum(d, cols, i, Len(cols))]

\* df[name] = column, for each name of new
assign_cols(d, new) ==
    [c \in DOMAIN d \cup DOMAIN new |->
        IF c \in DOMAIN new THEN new[c] ELSE d[c]]

\* df["Total Infrastructure"], df["Total Staff"], df["Grand Total"]
Totals ==
    /\ pc = "totals"
    /\ LET ti == sum_axis1(df, infra_cols)
           ts == sum_axis1(df, staff_cols)
           gt == [i \in 1..n_rows(df) |-> FAdd(ti[i], ts[i])]
       IN  df' = assign_cols(df, [c \in {"Total Infrastructure",
                                         "Total Staff", "Grand Total"} |->
                    CASE c = "Total Infrastructure" -> ti
                      [] c = "Total Staff" -> ts
                      [] c = "Grand Total" -> gt])
    /\ pc' = "ratios"
    /\ UNCHANGED <<inputs, years, n_years, customers, loop_i, vehicles, users,
                   excel_data, error>>

\* df["Grand Total"] / df[col], col an integer column
per_unit(d, col) ==
    [i \in 1..n_rows(d) |-> FDiv(d["Grand Total"][i], FromInt(d[col][i]))]

\* the three per-unit columns (the source spells EUR with the euro sign)
PerUnit ==
    /\ pc = "ratios"
    /\ LET d1 == assign_cols(df, [c \in {"EUR per Vehicle"} |->
                                     per_unit(df, "Vehicles")])
           d2 == assign_cols(d1, [c \in {"EUR per User"} |->
                                     per_unit(d1, "Users")])
       IN  df' = assign_cols(d2, [c \in {"EUR per Customer"} |->
                                     per_unit(d2, "Customers")])
    /\ pc' = "export"
    /\ UNCHANGED <<inputs, years, n_years, customers, loop_i, vehicles, users,
                   excel_data, error>>

\* ------------------------------------------------------------------------
\* EXCEL EXPORT
\* ------------------------------------------------------------------------

\* the dict written to the "Assumptions" sheet
assumptions ==
    [k \in {"Start Year", "End Year", "Starting Customers",
            "Annual Customer Growth (%)", "Vehicles per Customer",
            "Riders per Vehicle", "Infrastructure Inflation (%)",
            "Staff Inflation (%)"} |->
        CASE k = "Start Year" -> start_year
          [] k = "End Year" -> end_year
          [] k = "Starting Customers" -> customers_start
          [] k = "Annual Customer Growth (%)" -> customers_growth
          [] k = "Vehicles per Customer" -> vehicles_per_customer
          [] k = "Riders per Vehicle" -> riders_per_vehicle
          [] k = "Infrastructure Inflation (%)" -> infra_increase
          [] k = "Staff Inflation (%)" -> staff_increase]

\* the workbook: df on sheet "Forecast", assumptions on sheet "Assumptions"
Export ==
    /\ pc = "export"
    /\ excel_data' = [Forecast |-> df, Assumptions |-> assumptions]
    /\ pc' = "done"
    /\ UNCHANGED <<inputs, years, n_years, customers, loop_i, vehicles, users,
                   df, error>>

Next ==
    \/ BuildYears
    \/ GrowCustomers
    \/ DerivePopulations
    \/ BuildData
    \/ Totals
    \/ PerUnit
    \/ Export

\* the dashboard: assumptions within the widget ranges
Spec == Init /\ [][Next]_vars

\* the calculation on any Assumptions record
EngineSpec == EngineInit /\ [][Next]_vars

\* ------------------------------------------------------------------------
\* Properties
\* ------------------------------------------------------------------------

\* the table has been assembled by pd.DataFrame
HasTable == pc \in {"totals", "ratios", "export", "done"}

\* the totals are in the table
HasTotals == pc \in {"ratios", "export", "done"}

\* the per-unit ratios are in the table
HasRatios == pc \in {"export", "done"}

VehicleComponents ==
    {"Compute & Kubernetes", "Transactional DB", "Analytics (BigQuery)",
     "Streaming", "Monitoring"}

UserComponents == {"Auth (Firebase)", "Support Tools (Intercom)"}

StaffComponents == {"Support Staff", "DevOps/Infra Engineers"}

InfraComponents == VehicleComponents \cup UserComponents

Components == InfraComponents \cup StaffComponents

\* the configured rate of a component
RateOf(c) ==
    CASE c = "Compute & Kubernetes" -> cost_per_vehicle_compute
      [] c = "Transactional DB" -> cost_per_vehicle_db
      [] c = "Analytics (BigQuery)" -> cost_per_vehicle_bigquery
      [] c = "Streaming" -> cost_per_vehicle_streaming
      [] c = "Monitoring" -> cost_per_vehicle_monitoring
      [] c = "Auth (Firebase)" -> cost_per_user_auth
      [] c = "Support Tools (Intercom)" -> cost_per_user_support
      [] c = "Support Staff" -> staff_support_per_customer
      [] c = "DevOps/Infra Engineers" -> staff_devops_per_customer

\* the un-truncated population a component is expected to scale with
PopulationOf(c) ==
    IF c \in VehicleComponents THEN vehicles
    ELSE IF c \in UserComponents THEN users
    ELSE customers

\* the inflation slider a component is expected to use
InflationOf(c) == IF c \in InfraComponents THEN infra_increase ELSE staff_increase

\* base_rate * population[i] * (1 + inflation_rate/100)^i, for row i + 1
Expected(c, i) ==
    FMul(FMul(FromInt(RateOf(c)), PopulationOf(c)[i + 1]),
         FPow(Frac(100 + InflationOf(c), 100), i))

\* C1: in every row i each of the nine cost components equals
\* base_rate * population[i] * (1 + inflation_rate/100)^i with the claimed
\* population and inflation rate; with growth 50% and infrastructure
\* inflation 5% every infrastructure component's row-1 value is its row-0
\* value * 1.5 * 1.05.
ComponentFormula ==
    HasTable =>
        /\ \A c \in Components : \A i \in 0..(n_years - 1) :
              df[c][i + 1] = Expected(c, i)
        /\ (customers_growth = 50 /\ infra_increase = 5 /\ n_years >= 2) =>
              \A c \in InfraComponents :
                 df[c][2] = FMul(df[c][1], FMul(Frac(3, 2), Frac(105, 100)))

\* C1 witness: defaults, three years; Compute & Kubernetes of year 1 is
\* 50 * 750 * 1.05 = 39375
ComponentFormulaWitness ==
    /\ pc = "done"
    /\ customers_start = 10 /\ customers_growth = 50
    /\ vehicles_per_customer = 50 /\ cost_per_vehicle_compute = 50
    /\ infra_increase = 5 /\ staff_increase = 10
    /\ n_years = 3
    /\ df["Compute & Kubernetes"][1] = FromInt(25000)
    /\ df["Compute & Kubernetes"][2] = FromInt(39375)
    /\ df["Support Staff"][2] = FromInt(16500)

\* C2: with end_year > start_year the table is built, has exactly
\* end_year - start_year + 1 rows, row i has year start_year + i, and every
\* column has that length.
TableShape ==
    (end_year > start_year) =>
        /\ pc # "failed"
        /\ HasTable =>
              /\ n_rows(df) = end_year - start_year + 1
              /\ \A i \in 0..(end_year - start_year) :
                    df["Year"][i + 1] = start_year + i
              /\ \A c \in DOMAIN df : Len(df[c]) = end_year - start_year + 1

\* C2 witness: a finished three-row table with all 19 columns
TableShapeWitness ==
    /\ pc = "done"
    /\ end_year = start_year + 2
    /\ df["Year"] = <<start_year, start_year + 1, start_year + 2>>
    /\ Cardinality(DOMAIN df) = 19

\* sum over a set of components of row i, written out independently of the
\* column lists of the script
RECURSIVE SumOver(_, _)
SumOver(S, i) ==
    IF S = {} THEN FromInt(0)
    ELSE LET c == CHOOSE x \in S : TRUE
         IN  FAdd(df[c][i], SumOver(S \ {c}, i))

\* C3: in every row Total Infrastructure is the sum of the 7 infrastructure
\* components, Total Staff the sum of the 2 staffing components and Grand
\* Total their sum, so that every component is counted exactly once.
Additivity ==
    HasTotals =>
        \A i \in 1..n_rows(df) :
            /\ df["Total Infrastructure"][i] = SumOver(InfraComponents, i)
            /\ df["Total Staff"][i] = SumOver(StaffComponents, i)
            /\ df["Grand Total"][i] =
                  FAdd(df["Total Infrastructure"][i], df["Total Staff"][i])
            /\ df["Grand Total"][i] = SumOver(Components, i)

\* C3 witness: defaults, first row: 44000 + 10000 infrastructure, 30000 staff
AdditivityWitness ==
    /\ pc = "done"
    /\ customers_start = 10 /\ vehicles_per_customer = 50
    /\ riders_per_vehicle = 10 /\ cost_per_vehicle_compute = 50
    /\ df["Total Infrastructure"][1] = FromInt(54000)
    /\ df["Total Staff"][1] = FromInt(30000)
    /\ df["Grand Total"][1] = FromInt(84000)

\* C4: with non-negative growth, inflation and rates and positive
\* multipliers, the three populations (also as truncated for display), the
\* nine components and the three aggregates never decrease from one row to
\* the next.
Monotone ==
    (/\ HasTotals
     /\ customers_growth >= 0 /\ infra_increase >= 0 /\ staff_increase >= 0
     /\ customers_start >= 1 /\ vehicles_per_customer >= 1
     /\ riders_per_vehicle >= 1
     /\ \A c \in Components : RateOf(c) >= 0) =>
        \A i \in 1..(n_rows(df) - 1) :
            /\ FLeq(customers[i], customers[i + 1])
            /\ FLeq(vehicles[i], vehicles[i + 1])
            /\ FLeq(users[i], users[i + 1])
            /\ \A c \in {"Customers", "Vehicles", "Users"} :
                  df[c][i] <= df[c][i + 1]
            /\ \A c \in Components \cup {"Total Infrastructure", "Total Staff",
                                         "Grand Total"} :
                  FLeq(df[c][i], df[c][i + 1])

\* C4 witness: a table that really grows, with a fractional population
MonotoneWitness ==
    /\ pc = "done"
    /\ customers_growth = 50 /\ customers_start = 10 /\ n_years = 3
    /\ customers[3] = Frac(45, 2)
    /\ df["Customers"] = <<10, 15, 22>>
    /\ ~FLeq(df["Grand Total"][2], df["Grand Total"][1])

\* the script has left the calculation: it failed or it holds a table
Settled == pc \notin {"years", "loop", "data"}

IsUndefinedSentinel(x) == ~IsFinite(x) /\ x \notin {PosInf, NegInf, NaN}

NoInflationConstant ==
    (HasTable /\ end_year > start_year /\ infra_increase = 0) =>
        \A c \in InfraComponents : \A i \in 1..n_rows(df) :
            df[c][i] = df[c][1]

\* C7 as the code behaves: without infrastructure inflation every
\* infrastructure component of row i is base_rate * population[i], that is
\* its year-0 value times (1 + growth/100)^i, and so equals the year-0 value
\* when the growth is 0 as well.
NoInflationIdentity ==
    (HasTable /\ end_year > start_year /\ infra_increase = 0) =>
        \A c \in InfraComponents : \A i \in 0..(n_rows(df) - 1) :
            /\ df[c][i + 1] = FMul(FromInt(RateOf(c)), PopulationOf(c)[i + 1])
            /\ df[c][i + 1] =
                  FMul(df[c][1], FPow(Frac(100 + customers_growth, 100), i))
            /\ customers_growth = 0 => df[c][i + 1] = df[c][1]

\* C7 witness: no infrastructure inflation, staff inflation 10%, growth 50%:
\* Compute & Kubernetes follows the vehicles only
NoInflationIdentityWitness ==
    /\ pc = "done"
    /\ infra_increase = 0 /\ staff_increase = 10
    /\ customers_growth = 50 /\ customers_start = 10
    /\ vehicles_per_customer = 50 /\ cost_per_vehicle_compute = 50
    /\ n_years = 3
    /\ df["Compute & Kubernetes"] =
          <<FromInt(25000), FromInt(37500), FromInt(56250)>>

AssumptionFields ==
    {"Start Year", "End Year", "Starting Customers",
     "Annual Customer Growth (%)", "Vehicles per Customer",
     "Riders per Vehicle",
     "Compute & Kubernetes per Vehicle", "Transactional DB per Vehicle",
     "Analytics (BigQuery) per Vehicle", "Streaming per Vehicle",
     "Monitoring per Vehicle", "Authentication (Firebase) per User",
     "Support Tools (Intercom) per User", "Support Staff per Customer",
     "DevOps/Infra Engineer per Customer",
     "Infrastructure Inflation (%)", "Staff Inflation (%)"}

\* C9 as claimed: the workbook has the sheets Forecast and Assumptions, the
\* Forecast sheet is the whole table and the Assumptions sheet holds every
\* field of the Assumptions record, the cost rates included.
ExportComplete ==
    pc = "done" =>
        /\ DOMAIN excel_data = {"Forecast", "Assumptions"}
        /\ excel_data["Forecast"] = df
        /\ AssumptionFields \subseteq DOMAIN excel_data["Assumptions"]

\* the un-truncated population behind a per-unit ratio
DivisorOf(c) ==
    CASE c = "EUR per Vehicle" -> vehicles
      [] c = "EUR per User" -> users
      [] c = "EUR per Customer" -> customers

\* C10 as claimed: in every row each per-unit ratio is Grand Total divided
\* by the un-truncated population of that row.
RatioUsesUntruncated ==
    (HasRatios /\ end_year > start_year) =>
        \A c \in {"EUR per Vehicle", "EUR per User", "EUR per Customer"} :
            \A i \in 1..n_rows(df) :
                df[c][i] = FDiv(df["Grand Total"][i], DivisorOf(c)[i])

====
